---- MODULE Spec2Model ----
(***************************************************************************)
(* HistoQC pipeline execution engine (histoqc/qc_pipeline.py): main(), the *)
(* pool tasks running worker(), the pool's result handler running the      *)
(* callback, and the run finalization.                                     *)
(*                                                                         *)
(* A path is a sequence of components (<<"x", "a">> is "x/a"; an absolute  *)
(* path starts with the component "/").  A report file is the sequence of  *)
(* blocks written to it.                                                   *)
(***************************************************************************)
EXTENDS Integers, Sequences, FiniteSets, TLC

\* ---------------------------------------------------------------- bounds
MaxItems == 3
MaxBatch == 2
MaxWorkers == 2
NSteps == 2
MaxFaults == 1
MaxLines == 2
MaxMatches == 1
MaxCols == 2

\* ------------------------------------------------------- paths and files
RelPaths == { <<"a">>, <<"x", "a">>, <<"b">> }
ManifestName == <<"list.tsv">>
GlobPattern == <<"*.svs">>
Cwd == <<"/", "cwd">>

\* os.path.basename
Basename(p) == p[Len(p)]

\* os.path.realpath: absolute paths stay, relative ones are joined to the
\* working directory (no symbolic links in the modelled file tree)
Realpath(p) == IF p # <<>> /\ p[1] = "/" THEN p ELSE Cwd \o p

\* str.endswith("tsv") on the only pattern
EndsWithTsv(p) == Basename(p) = "list.tsv"

\* basepath = args.basepath + os.sep if len(args.basepath) > 0 else ""
BasepathSep(bp) == IF Len(bp) > 0 THEN bp ELSE <<>>

\* A manifest line is [hash, cols]: hash says that its first character is
\* "#", cols are its tab-separated columns; <<>> is a column that is empty or
\* all whitespace.

\* str.strip() takes the leading whitespace, tabs included, off the line: the
\* empty columns at its start are gone
RECURSIVE LStrip(_)
LStrip(cols) ==
  IF cols = <<>> THEN <<>>
  ELSE IF Head(cols) = <<>> THEN LStrip(Tail(cols)) ELSE cols

\* line.strip().split("\t")[0]
FirstColumn(cols) == IF LStrip(cols) = <<>> THEN <<>> ELSE LStrip(cols)[1]

\* the manifest loop: lines starting with "#" are skipped, the others give
\* basepath + first column
RECURSIVE ManifestFiles(_, _)
ManifestFiles(lines, bp) ==
  IF lines = <<>> THEN <<>>
  ELSE IF Head(lines).hash
       THEN ManifestFiles(Tail(lines), bp)
       ELSE <<BasepathSep(bp) \o FirstColumn(Head(lines).cols)>>
            \o ManifestFiles(Tail(lines), bp)

\* the three input options of main; glob.glob is the environment's answer
EnumerateFiles(a, e) ==
  IF Len(a.input_pattern) > 1 THEN a.input_pattern
  ELSE IF EndsWithTsv(a.input_pattern[1]) THEN ManifestFiles(e.manifest, a.basepath)
  ELSE e.globres

\* sequences over S of length lo..hi
SeqsOf(S, lo, hi) == UNION { [1..n -> S] : n \in lo..hi }

IsInjective(s) == \A j, k \in DOMAIN s : j # k => s[j] # s[k]

\* ----------------------------------------------------------------- steps
ConfigSteps == [k \in 1..NSteps |-> k]
FullRun == ConfigSteps

\* ----------------------------------------------------------------- state
VARIABLES
  args,          \* parsed command line (fixed for the run)
  env,           \* what the run finds: manifest, glob answer, old outputs,
                 \* unresolvable steps
  mainpc,        \* position of main()
  exc,           \* the exception that ended main(), "" if none
  headers,       \* module global headers
  process_queue, \* load_pipeline's result in the coordinator
  poolStarted,   \* multiprocessing.Pool created
  outdirMade,    \* make_dir_safe(args.outdir) done
  overwrite_flag,
  csv_report,    \* index of the open report file, 0 when none is open
  disk,          \* report file index -> blocks written to that file
  pend,          \* blocks written to csv_report and not flushed yet
  cbitem,        \* the item whose callback is running, 0 when none is
  files,         \* the enumerated list
  results,       \* AsyncResults in submission order: [i, fname]
  taskq,         \* the pool's task queue
  task,          \* per list position: where its task is
  completed,     \* s["completed"] of each task
  existed,       \* per task: os.path.isdir(fname_outdir) at task start
  trace,         \* per task: the operations it has executed, in order
  outqueue,      \* results on their way to the result handler
  dirs,          \* existing item output directories (by basename)
  nfiledone, batch, first, failed,
  cbcalls,       \* arguments the callback was called with, in order
  rowlog,        \* rows written, in order: [item, file]
  waitidx,       \* the result main() is waiting for
  summary,       \* failure summary logged at the end
  symlink,       \* outcome of the link publication, "none" before
  logCopied      \* error.log copied into the output directory

vars == << args, env, mainpc, exc, headers, process_queue, poolStarted,
           outdirMade, overwrite_flag, csv_report, disk, files, results,
           taskq, task, completed, existed, trace, outqueue, dirs,
           nfiledone, batch, first, failed, cbcalls, rowlog, waitidx,
           summary, symlink, logCopied, pend, cbitem >>

Items == 1..MaxItems
FileIdx == 1..(MaxItems + 1)

\* a report left by an earlier run: header, column line, one row
OldReport == << [kind |-> "meta"], [kind |-> "cols"], [kind |-> "row", item |-> 0] >>

\* manifest lines: a comment, or one data line with the path a
ManifestLines == [hash : BOOLEAN, cols : { << <<"a">> >> }]

\* manifest lines with up to MaxCols columns, empty ones included
WideLines ==
  [hash : {FALSE}, cols : SeqsOf({ <<>>, <<"a">>, <<"b">> }, 1, MaxCols)]
    \cup { [hash |-> TRUE, cols |-> << <<"a">> >>] }

\* explicit path lists; the first path is called "a"
PathLists == { s \in SeqsOf(RelPaths, 2, MaxItems) : s[1] = <<"a">> }

\* command lines and environments of a run
ArgsSet ==
  [ given : {TRUE},
    input_pattern : PathLists \cup { <<>>, <<ManifestName>>, <<GlobPattern>> },
    basepath : { <<>>, <<"/", "data">> },
    force : BOOLEAN,
    batched : BOOLEAN,
    batch : 1..MaxBatch,
    nthreads : 1..MaxWorkers ]

NoArgs == [ given |-> FALSE, input_pattern |-> <<>>, basepath |-> <<>>,
            force |-> FALSE, batched |-> FALSE, batch |-> 1, nthreads |-> 1 ]

InitState(a, e) ==
  /\ args = a
  /\ env = e
  /\ mainpc = "start"
  /\ exc = ""
  /\ headers = <<>>
  /\ process_queue = <<>>
  /\ poolStarted = FALSE
  /\ outdirMade = FALSE
  /\ overwrite_flag = ""
  /\ csv_report = 0
  /\ disk = [k \in FileIdx |-> IF e.prevRun /\ k = 1 THEN OldReport ELSE <<>>]
  /\ files = <<>>
  /\ results = <<>>
  /\ taskq = <<>>
  /\ task = [i \in Items |-> "unsubmitted"]
  /\ completed = [i \in Items |-> <<>>]
  /\ existed = [i \in Items |-> FALSE]
  /\ trace = [i \in Items |-> <<>>]
  /\ outqueue = <<>>
  /\ dirs = e.dirs0
  /\ nfiledone = 0
  /\ batch = 1
  /\ first = TRUE
  /\ failed = <<>>
  /\ cbcalls = <<>>
  /\ rowlog = <<>>
  /\ waitidx = 1
  /\ summary = <<>>
  /\ symlink = "none"
  /\ logCopied = FALSE
  /\ pend = <<>>
  /\ cbitem = 0

\* runs over a manifest, one worker, --force, no batches
ManifestArgs ==
  { a \in ArgsSet : /\ a.input_pattern = <<ManifestName>>
                    /\ a.force /\ ~a.batched /\ a.nthreads = 1 }

InitWith(A, L) ==
  \E a \in A :
    \E mf \in SeqsOf(L, 0, MaxLines),
       gl \in { g \in SeqsOf(RelPaths, 0, MaxMatches) : IsInjective(g) },
       d0 \in SUBSET {Basename(<<"a">>)}, pr \in BOOLEAN, bad \in SUBSET (1..NSteps) :
      \* fields the command line does not read are fixed
      /\ (a.batched = FALSE => a.batch = 1)
      /\ (a.input_pattern # <<ManifestName>> => mf = <<>> /\ a.basepath = <<>>)
      /\ (a.input_pattern # <<GlobPattern>> => gl = <<>>)
      /\ (a.given = FALSE => d0 = {} /\ pr = FALSE /\ bad = {})
      /\ InitState(a, [manifest |-> mf, globres |-> gl, dirs0 |-> d0,
                        prevRun |-> pr, bad |-> bad])

Init == InitWith(ArgsSet \cup {NoArgs}, ManifestLines)
InitManifest == InitWith(ManifestArgs, WideLines)

\* ------------------------------------------------------------ main(), 1
Terminal == {"exit1", "crashed", "done"}

\* main, up to the usage exit: the start time is the first header
ParseArgs ==
  /\ mainpc = "start"
  /\ headers' = Append(headers, "start_time")
  /\ mainpc' = IF args.given THEN "load_pipeline" ELSE "exit1"
  /\ UNCHANGED << args, env, exc, process_queue, poolStarted, outdirMade,
                  overwrite_flag, csv_report, disk, files, results, taskq, task,
                  completed, existed, trace, outqueue, dirs, nfiledone, batch,
                  first, failed, cbcalls, rowlog, waitidx, summary, symlink,
                  logCopied, pend, cbitem >>

\* mutant: steps are not resolved when the pipeline is loaded
Resolves_Unchecked(steps, bad) == TRUE

\* load_pipeline: import_module / getattr raise on a step that does not resolve
Resolves(steps, bad) == \A k \in DOMAIN steps : steps[k] \notin bad

LoadPipeline ==
  /\ mainpc = "load_pipeline"
  /\ headers' = Append(headers, "pipeline")
  /\ IF Resolves(ConfigSteps, env.bad)
     THEN /\ process_queue' = ConfigSteps
          /\ mainpc' = "pool"
          /\ exc' = exc
     ELSE /\ process_queue' = process_queue
          /\ mainpc' = "crashed"
          /\ exc' = "config"
  /\ UNCHANGED << args, env, poolStarted, outdirMade, overwrite_flag,
                  csv_report, disk, files, results, taskq, task, completed,
                  existed, trace, outqueue, dirs, nfiledone, batch, first,
                  failed, cbcalls, rowlog, waitidx, summary, symlink, logCopied,
                  pend, cbitem >>

\* pool = multiprocessing.Pool(processes=args.nthreads, ...)
StartPool ==
  /\ mainpc = "pool"
  /\ poolStarted' = TRUE
  /\ mainpc' = "outdir"
  /\ UNCHANGED << args, env, exc, headers, process_queue, outdirMade,
                  overwrite_flag, csv_report, disk, files, results, taskq, task,
                  completed, existed, trace, outqueue, dirs, nfiledone, batch,
                  first, failed, cbcalls, rowlog, waitidx, summary, symlink,
                  logCopied, pend, cbitem >>

\* make_dir_safe(args.outdir) and the three headers that follow
MakeOutdir ==
  /\ mainpc = "outdir"
  /\ outdirMade' = TRUE
  /\ headers' = headers \o << "outdir", "config_file", "command_line_args" >>
  /\ mainpc' = "open"
  /\ UNCHANGED << args, env, exc, process_queue, poolStarted, overwrite_flag,
                  csv_report, disk, files, results, taskq, task, completed,
                  existed, trace, outqueue, dirs, nfiledone, batch, first,
                  failed, cbcalls, rowlog, waitidx, summary, symlink, logCopied,
                  pend, cbitem >>

\* "a" only when an earlier run's results*.tsv are there and --force is not set
OverwriteFlag(prev, force) == IF prev /\ ~force THEN "a" ELSE "w"

\* open(filename, flag): "w" truncates, "a" keeps what is there
OpenFile(d, k, flag) == IF flag = "w" THEN [d EXCEPT ![k] = <<>>] ELSE d

OpenReport ==
  /\ mainpc = "open"
  /\ overwrite_flag' = OverwriteFlag(env.prevRun, args.force)
  /\ csv_report' = batch
  /\ disk' = OpenFile(disk, batch, overwrite_flag')
  /\ mainpc' = "enumerate"
  /\ UNCHANGED << args, env, exc, headers, process_queue, poolStarted,
                  outdirMade, files, results, taskq, task, completed, existed,
                  trace, outqueue, dirs, nfiledone, batch, first, failed,
                  cbcalls, rowlog, waitidx, summary, symlink, logCopied,
                  pend, cbitem >>

\* the file list; sys.exit(1) only when no input pattern was given
Enumerate ==
  /\ mainpc = "enumerate"
  /\ IF args.input_pattern = <<>>
     THEN /\ mainpc' = "exit1"
          /\ files' = files
     ELSE /\ files' = EnumerateFiles(args, env)
          /\ mainpc' = IF Len(files') = 0 THEN "wait" ELSE "submit"
  /\ UNCHANGED << args, env, exc, headers, process_queue, poolStarted,
                  outdirMade, overwrite_flag, csv_report, disk, results, taskq,
                  task, completed, existed, trace, outqueue, dirs, nfiledone,
                  batch, first, failed, cbcalls, rowlog, waitidx, summary,
                  symlink, logCopied, pend, cbitem >>

\* mutant: a task is queued twice
PutTask_Twice(q, i) == Append(Append(q, i), i)

\* pool.apply_async puts one task on the pool's queue
PutTask(q, i) == Append(q, i)

\* one iteration of the submission loop
Submit ==
  /\ mainpc = "submit"
  /\ LET i == Len(results) + 1 IN
       /\ results' = Append(results, [i |-> i, fname |-> Realpath(files[i])])
       /\ taskq' = PutTask(taskq, i)
       /\ task' = [task EXCEPT ![i] = "queued"]
       /\ mainpc' = IF i = Len(files) THEN "wait" ELSE "submit"
  /\ UNCHANGED << args, env, exc, headers, process_queue, poolStarted,
                  outdirMade, overwrite_flag, csv_report, disk, files,
                  completed, existed, trace, outqueue, dirs, nfiledone, batch,
                  first, failed, cbcalls, rowlog, waitidx, summary, symlink,
                  logCopied, pend, cbitem >>

\* --------------------------------------------------------------- worker
Running == { i \in Items : task[i] \in {"rmtree", "makedirs", "load", "step"} }
PoolAlive == poolStarted /\ mainpc \notin Terminal
Outdir(i) == Basename(results[i].fname)

\* mutant: an existing output directory is never skipped
SkipExisting_Never(exists, force) == FALSE

\* an existing output directory is skipped unless --force is set
SkipExisting(exists, force) == exists /\ ~force

\* a free pool process takes the oldest queued task; worker() up to the
\* directory check
StartTask ==
  /\ PoolAlive
  /\ taskq # <<>>
  /\ Cardinality(Running) < args.nthreads
  /\ LET i == Head(taskq)
         isdir == Outdir(i) \in dirs
     IN /\ taskq' = Tail(taskq)
        /\ existed' = [existed EXCEPT ![i] = isdir]
        /\ trace' = [trace EXCEPT ![i] = Append(@, <<"start", 0>>)]
        /\ IF SkipExisting(isdir, args.force)
           THEN /\ task' = [task EXCEPT ![i] = "ret_none"]
                /\ outqueue' = Append(outqueue, i)
           ELSE /\ task' = [task EXCEPT ![i] = IF isdir THEN "rmtree" ELSE "makedirs"]
                /\ outqueue' = outqueue
  /\ UNCHANGED << args, env, mainpc, exc, headers, process_queue, poolStarted,
                  outdirMade, overwrite_flag, csv_report, disk, files, results,
                  completed, dirs, nfiledone, batch, first, failed, cbcalls,
                  rowlog, waitidx, summary, symlink, logCopied,
                  pend, cbitem >>

\* shutil.rmtree(fname_outdir); raises when the directory is gone by now
Rmtree(i) ==
  /\ PoolAlive
  /\ task[i] = "rmtree"
  /\ trace' = [trace EXCEPT ![i] = Append(@, <<"rmtree", 0>>)]
  /\ IF Outdir(i) \in dirs
     THEN /\ dirs' = dirs \ {Outdir(i)}
          /\ task' = [task EXCEPT ![i] = "makedirs"]
          /\ outqueue' = outqueue
     ELSE /\ dirs' = dirs
          /\ task' = [task EXCEPT ![i] = "ret_err"]
          /\ outqueue' = Append(outqueue, i)
  /\ UNCHANGED << args, env, mainpc, exc, headers, process_queue, poolStarted,
                  outdirMade, overwrite_flag, csv_report, disk, files, results,
                  taskq, completed, existed, nfiledone, batch, first, failed,
                  cbcalls, rowlog, waitidx, summary, symlink, logCopied,
                  pend, cbitem >>

\* make_dir_safe(fname_outdir): an existing directory is no error
Makedirs(i) ==
  /\ PoolAlive
  /\ task[i] = "makedirs"
  /\ dirs' = dirs \cup {Outdir(i)}
  /\ trace' = [trace EXCEPT ![i] = Append(@, <<"makedirs", 0>>)]
  /\ task' = [task EXCEPT ![i] = "load"]
  /\ UNCHANGED << args, env, mainpc, exc, headers, process_queue, poolStarted,
                  outdirMade, overwrite_flag, csv_report, disk, files, results,
                  taskq, completed, existed, outqueue, nfiledone, batch, first,
                  failed, cbcalls, rowlog, waitidx, summary, symlink, logCopied,
                  pend, cbitem >>

\* mutant: the exception is swallowed and s is returned as it is
TaskResult_Swallow(fault, last) ==
  IF fault \/ last THEN "ret_ok" ELSE "step"

\* how a call inside the try block ends the task: an exception is re-raised,
\* the return after the last step hands s back
TaskResult(fault, last) ==
  IF fault THEN "ret_err" ELSE IF last THEN "ret_ok" ELSE "step"

\* the loader and the steps are opaque: a call returns or raises
MayFault(fault) ==
  fault => Cardinality({ j \in Items : task[j] \in {"ret_err", "resolved_err"} }) < MaxFaults

\* s = BaseImage(fname, fname_outdir, ...)
Load(i) ==
  /\ PoolAlive
  /\ task[i] = "load"
  /\ trace' = [trace EXCEPT ![i] = Append(@, <<"load", 0>>)]
  /\ completed' = [completed EXCEPT ![i] = <<>>]
  /\ \E fault \in BOOLEAN :
       /\ MayFault(fault)
       /\ task' = [task EXCEPT ![i] = TaskResult(fault, NSteps = 0)]
  /\ outqueue' = IF task'[i] = "step" THEN outqueue ELSE Append(outqueue, i)
  /\ UNCHANGED << args, env, mainpc, exc, headers, process_queue, poolStarted,
                  outdirMade, overwrite_flag, csv_report, disk, files, results,
                  taskq, existed, dirs, nfiledone, batch, first, failed,
                  cbcalls, rowlog, waitidx, summary, symlink, logCopied,
                  pend, cbitem >>

\* s["completed"].append(process.__name__) after step k has returned
Completion_Prepend(c, k) == <<ConfigSteps[k]>> \o c
Completion(c, k) == Append(c, ConfigSteps[k])

\* one iteration of the step loop; after the last one, return s
Step(i) ==
  /\ PoolAlive
  /\ task[i] = "step"
  /\ LET k == Len(completed[i]) + 1 IN
       \E fault \in BOOLEAN :
         /\ MayFault(fault)
         /\ trace' = [trace EXCEPT ![i] = Append(@, <<"step", k>>)]
         /\ completed' = [completed EXCEPT ![i] =
                            IF fault THEN @ ELSE Completion(@, k)]
         /\ task' = [task EXCEPT ![i] = TaskResult(fault, k = NSteps)]
         /\ outqueue' = IF task'[i] = "step" THEN outqueue ELSE Append(outqueue, i)
  /\ UNCHANGED << args, env, mainpc, exc, headers, process_queue, poolStarted,
                  outdirMade, overwrite_flag, csv_report, disk, files, results,
                  taskq, existed, dirs, nfiledone, batch, first, failed,
                  cbcalls, rowlog, waitidx, summary, symlink, logCopied,
                  pend, cbitem >>

\* ------------------------------------------------- callback (aggregator)
\* nfiledone % args.batch; the default batch is float("inf")
ModBatch(n, a) == IF a.batched THEN n % a.batch ELSE n

\* mutant: the test for a non-zero counter is missing
NeedRotate_NoZeroTest(n, a) == ModBatch(n, a) = 0

\* if nfiledone and nfiledone % args.batch == 0
NeedRotate(n, a) == n # 0 /\ ModBatch(n, a) = 0

\* mutant: the header is written in append mode too
WriteHeader_AnyMode(f, flag) == f

\* if first and overwrite_flag == "w"
WriteHeader(f, flag) == f /\ flag = "w"

Write(d, k, blocks) == [d EXCEPT ![k] = @ \o blocks]

\* csv_report.close() and csv_report.flush() hand what the file object
\* holds to the file; the file is opened with buffering=1
Flush_Lazy(d, k, p) == [disk |-> d, pend |-> p]
Flush(d, k, p) == [disk |-> Write(d, k, p), pend |-> <<>>]

\* if s is None: return
CallbackSkips_Never(none) == FALSE
CallbackSkips(none) == none

\* nfiledone += 1
CountDone_Lost(n) == n
CountDone(n) == n + 1

\* callback(s) for an ItemState s of item i, up to the write of its row
Callback(i) ==
  LET rotate == NeedRotate(nfiledone, args)
      batch1 == IF rotate THEN batch + 1 ELSE batch
      closed == Write(disk, batch, pend)
      disk1 == IF rotate THEN OpenFile(closed, batch1, overwrite_flag) ELSE disk
      pend1 == IF rotate THEN <<>> ELSE pend
      first1 == IF rotate THEN TRUE ELSE first
      hdr == WriteHeader(first1, overwrite_flag)
      pend2 == IF hdr THEN pend1 \o << [kind |-> "meta"], [kind |-> "cols"] >>
               ELSE pend1
  IN /\ batch' = batch1
     /\ csv_report' = batch1
     /\ first' = IF hdr THEN FALSE ELSE first1
     /\ disk' = disk1
     /\ pend' = Append(pend2, [kind |-> "row", item |-> i])
     /\ cbitem' = i

\* the pool's result handler thread takes the next result: callback on
\* success (also for the None of a skipped item), nothing on an exception (no
\* error_callback is passed); the result of a task whose callback is running
\* is not ready yet
HandleResult ==
  /\ PoolAlive
  /\ cbitem = 0
  /\ outqueue # <<>>
  /\ LET i == Head(outqueue) IN
       /\ outqueue' = Tail(outqueue)
       /\ IF task[i] \in {"ret_ok", "ret_none"}
          THEN /\ cbcalls' = Append(cbcalls,
                       [item |-> i, none |-> task[i] = "ret_none",
                        completed |-> IF task[i] = "ret_none" THEN <<>>
                                      ELSE completed[i]])
               /\ IF CallbackSkips(task[i] = "ret_none")
                  THEN /\ task' = [task EXCEPT ![i] = "resolved_none"]
                       /\ UNCHANGED << batch, csv_report, first, disk, pend,
                                       cbitem >>
                  ELSE /\ Callback(i)
                       /\ task' = task
          ELSE /\ cbcalls' = cbcalls
               /\ task' = [task EXCEPT ![i] = "resolved_err"]
               /\ UNCHANGED << batch, csv_report, first, disk, pend, cbitem >>
  /\ UNCHANGED << args, env, mainpc, exc, headers, process_queue, poolStarted,
                  outdirMade, overwrite_flag, files, results, taskq, completed,
                  existed, trace, dirs, failed, waitidx, summary, symlink,
                  logCopied, nfiledone, rowlog >>

\* the end of callback(s): csv_report.flush(), the counter, and the result of
\* the task becomes ready
FlushRow ==
  /\ PoolAlive
  /\ cbitem # 0
  /\ disk' = Flush(disk, csv_report, pend).disk
  /\ pend' = Flush(disk, csv_report, pend).pend
  /\ nfiledone' = CountDone(nfiledone)
  /\ rowlog' = Append(rowlog, [item |-> cbitem, file |-> csv_report])
  /\ task' = [task EXCEPT ![cbitem] = "resolved_ok"]
  /\ cbitem' = 0
  /\ UNCHANGED << args, env, mainpc, exc, headers, process_queue, poolStarted,
                  outdirMade, overwrite_flag, csv_report, files, results, taskq,
                  completed, existed, trace, outqueue, dirs, batch, first,
                  failed, cbcalls, waitidx, summary, symlink, logCopied >>

\* worker_error(e): the failure record of a task; main passes it to no one
worker_error(i) == Append(failed, [fname |-> results[i].fname, err |-> "fault"])

\* ------------------------------------------------------------ main(), 2
Resolved == {"resolved_ok", "resolved_none", "resolved_err"}

\* r.get() raised e: nothing around the loop catches it, main() ends there
GetRaises_Caught(e) == "wait"
GetRaises(e) == "crashed"

\* r.get(timeout=60*30) of the next result: returns the value, re-raises the
\* task's exception, or raises TimeoutError while the result is not ready
GetResult ==
  /\ mainpc = "wait"
  /\ waitidx <= Len(results)
  /\ LET i == results[waitidx].i IN
       \/ /\ task[i] \in {"resolved_ok", "resolved_none"}
          /\ waitidx' = waitidx + 1
          /\ UNCHANGED << mainpc, exc >>
       \/ /\ task[i] = "resolved_err"
          /\ mainpc' = GetRaises("fault")
          /\ exc' = "fault"
          /\ waitidx' = waitidx
       \/ /\ task[i] \notin Resolved
          /\ mainpc' = GetRaises("timeout")
          /\ exc' = "timeout"
          /\ waitidx' = waitidx
  /\ UNCHANGED << args, env, headers, process_queue, poolStarted, outdirMade,
                  overwrite_flag, csv_report, disk, files, results, taskq, task,
                  completed, existed, trace, outqueue, dirs, nfiledone, batch,
                  first, failed, cbcalls, rowlog, summary, symlink, logCopied,
                  pend, cbitem >>

\* the loop over results is over after the last of the n results
AllWaited_Early(w, n) == w >= n
AllWaited(w, n) == w > n

\* pool.close(); pool.join()
PoolCloseJoin ==
  /\ mainpc = "wait"
  /\ AllWaited(waitidx, Len(results))
  /\ mainpc' = "close_report"
  /\ UNCHANGED << args, env, exc, headers, process_queue, poolStarted,
                  outdirMade, overwrite_flag, csv_report, disk, files, results,
                  taskq, task, completed, existed, trace, outqueue, dirs,
                  nfiledone, batch, first, failed, cbcalls, rowlog, waitidx,
                  summary, symlink, logCopied, pend, cbitem >>

\* csv_report.close(): what the file object still holds goes to the file
CloseReport ==
  /\ mainpc = "close_report"
  /\ disk' = Write(disk, csv_report, pend)
  /\ pend' = <<>>
  /\ csv_report' = 0
  /\ mainpc' = "summary"
  /\ UNCHANGED << args, env, exc, headers, process_queue, poolStarted,
                  outdirMade, overwrite_flag, files, results, taskq, task,
                  completed, existed, trace, outqueue, dirs, nfiledone, batch,
                  first, failed, cbcalls, rowlog, waitidx, summary, symlink,
                  logCopied, cbitem >>

\* the failure summary: one line per entry of failed
Summary ==
  /\ mainpc = "summary"
  /\ summary' = failed
  /\ mainpc' = "symlink"
  /\ UNCHANGED << args, env, exc, headers, process_queue, poolStarted,
                  outdirMade, overwrite_flag, csv_report, disk, files, results,
                  taskq, task, completed, existed, trace, outqueue, dirs,
                  nfiledone, batch, first, failed, cbcalls, rowlog, waitidx,
                  symlink, logCopied, pend, cbitem >>

\* what make_dir_safe(data_dir) and os.symlink can answer
LinkOutcomes == {"created", "exists", "notfound", "denied"}

\* only FileExistsError and FileNotFoundError are caught
LinkCaught(r) == r \in {"exists", "notfound"}

\* the link publication, unless --symlinkoff (read here for the first time)
Symlink ==
  /\ mainpc = "symlink"
  /\ \E off \in BOOLEAN, r \in LinkOutcomes :
       /\ symlink' = IF off THEN "off" ELSE r
       /\ IF off \/ r = "created" \/ LinkCaught(r)
          THEN /\ mainpc' = "copylog"
               /\ exc' = exc
          ELSE /\ mainpc' = "crashed"
               /\ exc' = "symlink"
  /\ UNCHANGED << args, env, headers, process_queue, poolStarted, outdirMade,
                  overwrite_flag, csv_report, disk, files, results, taskq, task,
                  completed, existed, trace, outqueue, dirs, nfiledone, batch,
                  first, failed, cbcalls, rowlog, waitidx, summary, logCopied,
                  pend, cbitem >>

\* shutil.copy("error.log", args.outdir + os.sep + "error.log")
CopyLog ==
  /\ mainpc = "copylog"
  /\ logCopied' = TRUE
  /\ mainpc' = "done"
  /\ UNCHANGED << args, env, exc, headers, process_queue, poolStarted,
                  outdirMade, overwrite_flag, csv_report, disk, files, results,
                  taskq, task, completed, existed, trace, outqueue, dirs,
                  nfiledone, batch, first, failed, cbcalls, rowlog, waitidx,
                  summary, symlink, pend, cbitem >>

Next ==
  \/ ParseArgs
  \/ LoadPipeline
  \/ StartPool
  \/ MakeOutdir
  \/ OpenReport
  \/ Enumerate
  \/ Submit
  \/ StartTask
  \/ \E i \in Items : Rmtree(i)
  \/ \E i \in Items : Makedirs(i)
  \/ \E i \in Items : Load(i)
  \/ \E i \in Items : Step(i)
  \/ HandleResult
  \/ FlushRow
  \/ GetResult
  \/ PoolCloseJoin
  \/ CloseReport
  \/ Summary
  \/ Symlink
  \/ CopyLog

Spec == Init /\ [][Next]_vars

\* the runs over manifests with every shape of line
SpecManifest == InitManifest /\ [][Next]_vars

\* =============================================================== claims
Range(s) == { s[k] : k \in DOMAIN s }
Enumerated == 1..Len(files)
InitialDisk == [k \in FileIdx |-> IF env.prevRun /\ k = 1 THEN OldReport ELSE <<>>]
IsHeader(b) == b.kind \in {"meta", "cols"}
RowOf(i) == [kind |-> "row", item |-> i]
HasRow(i) == \E k \in FileIdx : RowOf(i) \in Range(disk[k])
Faulted(i) == task[i] \in {"ret_err", "resolved_err"}
Count(s, x) == Cardinality({ k \in DOMAIN s : s[k] = x })

\* an item nothing but its own steps can stop: no fault of its own, no old
\* output directory, no other item with the same output directory
Unhindered(y) ==
  /\ ~Faulted(y)
  /\ Basename(files[y]) \notin env.dirs0
  /\ \A z \in Enumerated : z # y => Basename(files[z]) # Basename(files[y])

\* C1: when the run is over (and no result timed out, and the link publication
\* did not end it), every item other than a faulted one that did not fault
\* itself has its row in a report file.
C1_FaultIsolation ==
  (mainpc \in Terminal /\ exc \notin {"timeout", "symlink"}) =>
    \A x, y \in Enumerated :
      (x # y /\ Faulted(x) /\ Unhindered(y)) => HasRow(y)

\* C2: a task's fault is not re-raised in the coordinator; each resolved
\* faulted task has exactly one failure record, and a run that ends has all of
\* them in its failure summary.
C2_FaultBecomesRecord ==
  /\ exc # "fault"
  /\ \A i \in Enumerated :
       task[i] = "resolved_err" =>
         /\ Cardinality({ k \in DOMAIN failed : failed[k].fname = results[i].fname }) = 1
         /\ (mainpc = "done" => \E k \in DOMAIN summary : summary[k].fname = results[i].fname)

\* C3: with a finite batch size B the c-th row written by the run is in report
\* file (c-1) \div B + 1, whichever item it belongs to.
C3_BatchRotation ==
  args.batched =>
    \A c \in DOMAIN rowlog :
      LET k == ((c - 1) \div args.batch) + 1 IN
        /\ rowlog[c].file = k
        /\ RowOf(rowlog[c].item) \in Range(disk[k])

C3_Witness ==
  /\ args.batched /\ args.batch = 2
  /\ Len(rowlog) = 3
  /\ rowlog[1].item # 1
  /\ rowlog[3].file = 2

\* C4: opened for writing, every report file with a row starts with the
\* header block (metadata, then the column line) and has only rows after it;
\* opened for appending, no report file gets a header block from this run.
C4_HeaderEmission ==
  /\ overwrite_flag = "w" =>
       \A k \in FileIdx :
         (\E j \in DOMAIN disk[k] : disk[k][j].kind = "row") =>
           /\ Len(disk[k]) >= 3
           /\ disk[k][1].kind = "meta"
           /\ disk[k][2].kind = "cols"
           /\ \A j \in 3..Len(disk[k]) : disk[k][j].kind = "row"
  /\ overwrite_flag = "a" =>
       \A k \in FileIdx :
         SelectSeq(disk[k], IsHeader) = SelectSeq(InitialDisk[k], IsHeader)

\* 3 items, batch size 2: header + 2 rows, then header + 1 row
C4_Witness ==
  /\ overwrite_flag = "w" /\ args.batched /\ args.batch = 2
  /\ Len(files) = 3
  /\ Len(disk[1]) = 4 /\ Len(disk[2]) = 3
  /\ disk[2][1].kind = "meta" /\ disk[2][3].kind = "row"

\* C5: a faulted task has no row in any report file and the callback is never
\* called for it; every ItemState the callback gets has completed every step.
C5_NoPartialState ==
  /\ \A i \in Enumerated :
       Faulted(i) => /\ ~HasRow(i)
                     /\ \A k \in DOMAIN cbcalls : cbcalls[k].item # i
  /\ \A k \in DOMAIN cbcalls :
       ~cbcalls[k].none => cbcalls[k].completed = FullRun

C5_Witness ==
  \E x, y \in Enumerated :
    /\ task[x] = "resolved_err" /\ Len(completed[x]) = 1
    /\ task[y] = "resolved_ok" /\ HasRow(y)

Ops(i) == [k \in DOMAIN trace[i] |-> trace[i][k][1]]

\* C6: a task that found its output directory at its start runs, without
\* --force, no loader call and no step (it returns None); with --force it
\* removes the directory, then recreates it, and only then calls the loader
\* and the steps.
C6_OverwritePolicy ==
  \A i \in Enumerated :
    existed[i] =>
      IF ~args.force
      THEN /\ trace[i] = << <<"start", 0>> >>
           /\ completed[i] = <<>>
           /\ task[i] \in {"ret_none", "resolved_none"}
      ELSE /\ task[i] \notin {"ret_none", "resolved_none"}
           /\ \A k \in DOMAIN trace[i] :
                Ops(i)[k] \in {"load", "step"} =>
                  /\ k > 3
                  /\ Ops(i)[2] = "rmtree"
                  /\ Ops(i)[3] = "makedirs"
           /\ (task[i] \in {"ret_ok", "resolved_ok"} =>
                 trace[i] = << <<"start", 0>>, <<"rmtree", 0>>, <<"makedirs", 0>>,
                               <<"load", 0>> >> \o [k \in 1..NSteps |-> <<"step", k>>])

C6_Witness ==
  \E i \in Enumerated :
    /\ args.force /\ existed[i]
    /\ task[i] = "resolved_ok"
    /\ Outdir(i) \in dirs

\* C7: results are submitted one per list position, in list order; every
\* submitted task is started at most once and calls the loader at most once,
\* whether it succeeds or faults.
C7_OneTaskPerItem ==
  /\ Len(results) <= Len(files)
  /\ \A k \in DOMAIN results :
       results[k] = [i |-> k, fname |-> Realpath(files[k])]
  /\ (mainpc \in {"wait", "close_report", "summary", "symlink", "copylog", "done"}
        => Len(results) = Len(files))
  /\ \A i \in Items :
       /\ Count(Ops(i), "start") <= 1
       /\ Count(Ops(i), "load") <= 1
       /\ (i \notin DOMAIN results => trace[i] = <<>>)
       /\ (task[i] \in Resolved => Count(Ops(i), "start") = 1)

C7_Witness ==
  /\ Len(files) = 3
  /\ \A i \in Enumerated : task[i] \in Resolved
  /\ \E x, y \in Enumerated : task[x] = "resolved_err" /\ task[y] = "resolved_ok"

\* the first occurrences of a list, in order
RECURSIVE Dedup(_)
Dedup(s) ==
  IF s = <<>> THEN <<>>
  ELSE LET r == Dedup(SubSeq(s, 1, Len(s) - 1)) IN
         IF s[Len(s)] \in Range(r) THEN r ELSE Append(r, s[Len(s)])

\* C8: the paths submitted to the pool are the first occurrences of the
\* canonical input paths, in input order: no canonical path is submitted twice.
C8_Deduplicated ==
  LET canon == [k \in DOMAIN files |-> Realpath(files[k])]
      sub == [k \in DOMAIN results |-> results[k].fname]
  IN /\ IsInjective(sub)
     /\ Len(sub) <= Len(Dedup(canon))
     /\ sub = SubSeq(Dedup(canon), 1, Len(sub))

\* C9: with an empty enumerated list the run goes nowhere past the
\* enumeration: no submission, no waiting, no finalization, no normal end.
C9_EmptyInputIsUsageError ==
  files = <<>> =>
    mainpc \notin {"submit", "wait", "close_report", "summary", "symlink",
                   "copylog", "done"}

\* C10: when a configured step does not resolve, the run never starts the
\* pool, never creates the output directory or opens a report file, never
\* submits a task, and ends in load_pipeline with the resolution error.
C10_ConfigErrorBeforeRun ==
  (\E k \in DOMAIN ConfigSteps : ConfigSteps[k] \in env.bad) =>
    /\ ~poolStarted
    /\ ~outdirMade
    /\ csv_report = 0 /\ overwrite_flag = "" /\ disk = InitialDisk
    /\ results = <<>> /\ taskq = <<>>
    /\ mainpc \in {"start", "load_pipeline", "crashed"}
    /\ (mainpc = "crashed" => exc = "config")

C10_Witness ==
  /\ mainpc = "crashed" /\ exc = "config"
  /\ NSteps \in env.bad /\ 1 \notin env.bad

\* C11: a run over a manifest enumerates, in file order, one entry per line
\* that does not start with "#": the base path joined with the line's first
\* tab-separated column; lines starting with "#" give nothing.
RECURSIVE FirstColumns(_, _)
FirstColumns(lines, bp) ==
  IF lines = <<>> THEN <<>>
  ELSE IF Head(lines).hash
       THEN FirstColumns(Tail(lines), bp)
       ELSE <<BasepathSep(bp) \o Head(lines).cols[1]>> \o FirstColumns(Tail(lines), bp)

C11_ManifestEnumeration ==
  (/\ args.input_pattern = <<ManifestName>>
   /\ mainpc \in {"submit", "wait", "close_report", "summary", "symlink",
                  "copylog", "done"})
    => files = FirstColumns(env.manifest, args.basepath)

\* C13: a link publication that failed, whatever the cause (the link exists,
\* its directory is missing, permission denied), does not end the run: the run
\* goes on to copy the fault log.
C13_LinkFailureNotFatal ==
  symlink \in {"exists", "notfound", "denied"} => mainpc \in {"copylog", "done"}

\* C14: once r.get() has timed out the run is over where it stood: main() is
\* not waiting any more, the result it waited for and the ones after it are
\* never fetched, the report file was not closed, no failure summary, no link
\* and no copy of the fault log were made.
C14_TimeoutIsFatal ==
  exc = "timeout" =>
    /\ mainpc = "crashed"
    /\ waitidx <= Len(results)
    /\ task[results[waitidx].i] \notin Resolved
    /\ csv_report # 0
    /\ symlink = "none"
    /\ ~logCopied

\* the timeout comes at the second of three results, after a row was written
C14_Witness ==
  /\ exc = "timeout"
  /\ Len(results) = 3 /\ waitidx = 2
  /\ task[1] = "resolved_ok" /\ HasRow(1)
  /\ task[2] \notin Resolved

\* the report file has been closed by the finalizer
Closed == mainpc \in {"summary", "symlink", "copylog", "done"} \/ exc = "symlink"

\* C12: when the report file is closed every submitted task has resolved and
\* every successful one has its row; after the close no report file changes;
\* the failure summary and the link publication come between the close and the
\* copy of the fault log, and nothing happens after the copy.
C12_FinalizationOrdering ==
  /\ [](Closed =>
          /\ csv_report = 0
          /\ Len(results) = Len(files) /\ taskq = <<>> /\ outqueue = <<>>
          /\ \A i \in Enumerated :
               /\ task[i] \in {"resolved_ok", "resolved_none"}
               /\ (task[i] = "resolved_ok" => HasRow(i)))
  /\ [](mainpc \in {"summary", "symlink"} => symlink = "none" /\ ~logCopied)
  /\ [](mainpc = "copylog" => symlink # "none" /\ ~logCopied)
  /\ [](logCopied <=> mainpc = "done")
  /\ [][Closed => disk' = disk]_vars
  /\ [][~logCopied]_vars

\* a finished run of three items, one of them skipped, with the link made
C12_Witness ==
  /\ mainpc = "done" /\ logCopied /\ symlink = "created"
  /\ Len(files) = 3
  /\ \E x, y \in Enumerated : task[x] = "resolved_none" /\ task[y] = "resolved_ok"

\* the step calls of a task, in the order they were made
IsStepCall(e) == e[1] = "step"
StepCalls(i) == SelectSeq(trace[i], IsStepCall)

\* C15: the steps of a task are called in the configured order, each once and
\* only after the loader and all steps before it have returned; the list of
\* completed steps is always a prefix of the configured sequence, behind the
\* calls by one only when the last call faulted; a task that returns its
\* ItemState has completed the whole sequence.
C15_StepSequencing ==
  \A i \in Items :
    /\ StepCalls(i) = [k \in 1..Len(StepCalls(i)) |-> <<"step", k>>]
    /\ Len(StepCalls(i)) <= NSteps
    /\ (StepCalls(i) # <<>> =>
          \E j \in DOMAIN trace[i] :
            /\ trace[i][j] = <<"load", 0>>
            /\ \A m \in DOMAIN trace[i] : IsStepCall(trace[i][m]) => j < m)
    /\ completed[i] = SubSeq(ConfigSteps, 1, Len(completed[i]))
    /\ Len(completed[i]) = IF Faulted(i) /\ StepCalls(i) # <<>>
                           THEN Len(StepCalls(i)) - 1
                           ELSE Len(StepCalls(i))
    /\ (task[i] \in {"ret_ok", "resolved_ok"} => completed[i] = ConfigSteps)

\* one task has returned after all its steps, another faulted in its last step
C15_Witness ==
  \E x, y \in Enumerated :
    /\ task[x] \in {"ret_ok", "resolved_ok"} /\ Len(StepCalls(x)) = NSteps
    /\ Faulted(y) /\ Len(StepCalls(y)) = NSteps /\ Len(completed[y]) = NSteps - 1

\* the task has got as far as the loader: it works in its output directory
Worked(i) == "load" \in Range(Ops(i))

\* C16: in a run with two or more workers, no two tasks for different paths
\* work in the same output directory, and under --force no task removes a
\* directory that another task of the run has made.
C16_OutdirExclusive ==
  args.nthreads >= 2 =>
    \A i, j \in DOMAIN results :
      (i # j /\ results[i].fname # results[j].fname) =>
        /\ ~(Worked(i) /\ Worked(j) /\ Outdir(i) = Outdir(j))
        /\ ~(/\ "rmtree" \in Range(Ops(i)) /\ "makedirs" \in Range(Ops(j))
             /\ Outdir(i) = Outdir(j) /\ Outdir(i) \notin env.dirs0)

IsRow(b) == b.kind = "row"
IsRunRow(b) == b.kind = "row" /\ b.item # 0

\* data rows in the report files 1..k: all of them, and those of this run
RECURSIVE RowsUpTo(_)
RowsUpTo(k) ==
  IF k = 0 THEN 0 ELSE Len(SelectSeq(disk[k], IsRow)) + RowsUpTo(k - 1)
RECURSIVE RunRowsUpTo(_)
RunRowsUpTo(k) ==
  IF k = 0 THEN 0 ELSE Len(SelectSeq(disk[k], IsRunRow)) + RunRowsUpTo(k - 1)

ResolvedOk == { i \in Items : task[i] = "resolved_ok" }

\* C17 as stated: at the end of the run the counter equals the number of data
\* rows in all report files.
C17_CounterEqualsAllRows ==
  mainpc = "done" => nfiledone = RowsUpTo(MaxItems + 1)

\* C17: one callback runs at a time; the counter never decreases, goes up by
\* one exactly in the step that resolves a successful task, is the number of
\* successful tasks resolved so far, and at the end of the run is the number
\* of data rows this run has written to the report files.
C17_CounterCountsRunRows ==
  /\ [](cbitem # 0 => task[cbitem] = "ret_ok")
  /\ [][cbitem # 0 => cbitem' \in {0, cbitem}]_vars
  /\ [][nfiledone' \in {nfiledone, nfiledone + 1}]_vars
  /\ [][nfiledone' = nfiledone + 1 <=>
          \E i \in Items : task[i] # "resolved_ok" /\ task'[i] = "resolved_ok"]_vars
  /\ [](nfiledone = Cardinality(ResolvedOk))
  /\ [](mainpc = "done" => nfiledone = RunRowsUpTo(MaxItems + 1))

\* a finished run in append mode on two workers: two rows of its own after
\* the row of the earlier run
C17_Witness ==
  /\ mainpc = "done" /\ overwrite_flag = "a" /\ args.nthreads = 2
  /\ nfiledone = 2
  /\ RowsUpTo(MaxItems + 1) = 3

\* C18: at most one row is written and not flushed, it is the row of the
\* running callback, and with no callback running nothing is unflushed; every
\* row of a callback that has returned is in its report file, rotated files
\* included, wherever the run stops.
C18_CrashSafety ==
  /\ Len(SelectSeq(pend, IsRow)) <= 1
  /\ (cbitem = 0 => pend = <<>>)
  /\ (cbitem # 0 => SelectSeq(pend, IsRow) = << RowOf(cbitem) >>)
  /\ \A c \in DOMAIN rowlog :
       RowOf(rowlog[c].item) \in Range(disk[rowlog[c].file])
  /\ \A i \in ResolvedOk : HasRow(i)
  /\ Len(rowlog) = Cardinality(ResolvedOk)

\* the run has stopped with one row in flight; the row before it is in the
\* rotated file
C18_Witness ==
  /\ mainpc = "crashed"
  /\ cbitem # 0 /\ ~HasRow(cbitem)
  /\ Len(rowlog) = 1 /\ rowlog[1].file = 1 /\ HasRow(rowlog[1].item)
  /\ batch = 2

\* the report file the n-th row of the run goes to
BatchAt(n) == IF args.batched /\ n > 0 THEN ((n - 1) \div args.batch) + 1 ELSE 1

\* C19: the callback call for a skipped item changes nothing of the report:
\* no file, no buffered block, not the counter, the header flag, the batch
\* index or the open file; a skipped item never has a row, and the batch index
\* is a function of the number of rows written alone.
C19_SkipLeavesReport ==
  /\ [][(Len(cbcalls') = Len(cbcalls) + 1 /\ cbcalls'[Len(cbcalls')].none) =>
          /\ UNCHANGED << disk, pend, nfiledone, first, batch, csv_report,
                          rowlog, cbitem >>
          /\ task'[cbcalls'[Len(cbcalls')].item] = "resolved_none"]_vars
  /\ [](\A i \in Items :
          task[i] \in {"ret_none", "resolved_none"} =>
            /\ ~HasRow(i)
            /\ RowOf(i) \notin Range(pend)
            /\ \A c \in DOMAIN rowlog : rowlog[c].item # i)
  /\ [](batch = BatchAt(nfiledone + (IF cbitem # 0 THEN 1 ELSE 0)))

\* batches of one row: a skipped item came between two rows, the second row
\* is in the second file
C19_Witness ==
  /\ args.batched /\ args.batch = 1
  /\ Len(cbcalls) = 3 /\ ~cbcalls[1].none /\ cbcalls[2].none /\ ~cbcalls[3].none
  /\ nfiledone = 2 /\ batch = 2

\* the task ended with an exception of its loader or of one of its steps
StepFaulted(i) ==
  /\ Faulted(i)
  /\ trace[i][Len(trace[i])][1] \in {"load", "step"}

\* C20: a run whose pipeline resolved, in which no loader or step call
\* faulted and no result timed out, is not ended by an exception: it can go on
\* to the end of the finalization.
C20_RunCompletes ==
  (mainpc = "crashed" /\ exc \notin {"config", "timeout"}) =>
    \E i \in Items : StepFaulted(i)
====
